---- MODULE Spec2Model ----
(***************************************************************************)
(* A model of src/main.rs: the reconstruction of the allocator state of a  *)
(* V5 `form` memory image.  The program decodes the header region of the   *)
(* image, walks the free lists, classifies every block header, trims the   *)
(* never-used tail of the table, partitions the data area into segments,   *)
(* extracts the text of every segment and finally compares the non-alloc   *)
(* bytes against a list of residual strings.  Every panic of the program   *)
(* is modelled as the terminal state pc = "abort" with the panic in err.   *)
(***************************************************************************)
EXTENDS Integers, Sequences, FiniteSets, TLC

VARIABLES
    img,          \* the input: the image `form`
    pc,           \* position of main
    err,          \* the panic the run ended with, "" while there is none
    r,            \* number of free-list roots already handed to visit_free
    cur,          \* <<header>> for the pending call visit_free(.., header), else <<>>
    free,         \* free: [bool; HEADER_COUNT]
    parsed,       \* parsed: [Header; HEADER_COUNT], <<>> before it is built
    used,         \* Headers.used
    allocs,       \* allocs: Vec<(u16, u16, State)>
    slices,       \* the ranges form[i..j] requested by the allocation loop
    freed_cells,  \* the ranges (i, j) of freed_cells set to Some(form[..])
    npairs,       \* residual strings checked so far
    pair,         \* the residual string checked last
    mismatch,     \* index i of the first mismatch in pair, -1 if none
    arg,          \* input of a single Header::from_raw call
    ret           \* its result

vars == <<img, pc, err, r, cur, free, parsed, used, allocs, slices,
          freed_cells, npairs, pair, mismatch, arg, ret>>

(***************************************************************************)
(* Layout constants                                                        *)
(***************************************************************************)
HEADERS_SIZE == 6144
DATA_SIZE == 32768
\* free_list: [u16; 17]
FREE_LIST_LEN == 17
\* offset_of!(RawHeaders, headers): 17 roots and asmdisc, two bytes each
HEADERS_OFFSET == 36
\* size_of::<RawHeader>(): four u16
RAW_HEADER_SIZE == 8
\* size_of::<Header>(): a tag padded to two bytes and at most three u16
HEADER_ENUM_SIZE == 8
HEADER_COUNT == (HEADERS_SIZE - HEADERS_OFFSET) \div RAW_HEADER_SIZE
\* u16 values are 0 .. U16_RANGE - 1
U16_RANGE == 65536
\* Stand-in for usize::MAX / 8 + 1: the quotient by 8 of a wrapped usize
\* subtraction lies at or above this value, far beyond every table index.
USIZE_WRAP == 16777216

Slots == 0 .. (HEADER_COUNT - 1)
\* no call of visit_free is pending
NoCall == <<>>

(***************************************************************************)
(* Bounds of the model                                                     *)
(***************************************************************************)
\* number of leading table slots whose descriptors vary
NumHead == 2
\* longest residual string
MaxTextLen == 2
\* residual strings per run
MaxPairs == 1
\* field values HEADERS_SIZE .. HEADERS_SIZE + MaxDelta of a raw header
MaxDelta == 3

(***************************************************************************)
(* RawHeader::pointer_from_index, RawHeader::index_from_pointer            *)
(***************************************************************************)
pointer_from_index(index) == HEADERS_OFFSET + RAW_HEADER_SIZE * index

\* ptr as usize - 36 underflows for ptr < 36: a panic in a build with
\* overflow checks, a wrapped usize in a build without.
index_from_pointer(ptr, checks) ==
    IF ptr >= HEADERS_OFFSET
    THEN [panic |-> FALSE, index |-> (ptr - HEADERS_OFFSET) \div RAW_HEADER_SIZE]
    ELSE IF checks
    THEN [panic |-> TRUE, index |-> 0]
    ELSE [panic |-> FALSE,
          index |-> USIZE_WRAP + ((ptr - HEADERS_OFFSET) \div RAW_HEADER_SIZE)]

(***************************************************************************)
(* Header::from_raw                                                        *)
(***************************************************************************)
\* Fault: the bit test n & (n - 1) == 0, which also accepts 0.
is_power_of_two_OrZero(n) == n = 0 \/ \E k \in 0..15 : n = 2^k

is_power_of_two(n) == \E k \in 0..15 : n = 2^k

wrapping_sub(a, b) == (a - b + U16_RANGE) % U16_RANGE

Alloc(ptr, len, capacity) ==
    [tag |-> "Alloc", ptr |-> ptr, len |-> len, capacity |-> capacity]
Freed(next, ptr, capacity) ==
    [tag |-> "Freed", next |-> next, ptr |-> ptr, capacity |-> capacity]
Unused(next) == [tag |-> "Unused", next |-> next]
\* Option::None
NoHeader == [tag |-> "None"]
\* panic: attempt to subtract with overflow
OverflowPanic == [tag |-> "Overflow"]

\* The && chains are evaluated left to right: end - start is computed as soon
\* as the two bounds before it hold, before start <= end is looked at.
from_raw(header, is_free, form_len, checks) ==
    LET diff == wrapping_sub(header.end, header.start)
        underflow == header.end < header.start
    IN  IF is_free
        THEN IF header.start = HEADERS_SIZE /\ header.end = HEADERS_SIZE
             THEN IF header.read # HEADERS_SIZE
                  THEN NoHeader
                  ELSE Unused(header.write)
             ELSE IF ~(header.start >= HEADERS_SIZE
                       /\ header.end <= HEADERS_SIZE + DATA_SIZE)
                  THEN NoHeader
                  ELSE IF underflow /\ checks
                  THEN OverflowPanic
                  ELSE IF is_power_of_two(diff)
                          /\ header.start <= header.end
                          /\ (header.read = HEADERS_SIZE \/ header.read = 0)
                  THEN Freed(header.write, header.start, diff)
                  ELSE NoHeader
        ELSE IF ~(header.start >= HEADERS_SIZE
                  /\ header.end <= HEADERS_SIZE + DATA_SIZE)
             THEN NoHeader
             ELSE IF underflow /\ checks
             THEN OverflowPanic
             ELSE IF is_power_of_two(diff)
                     /\ header.start <= header.end
                     /\ header.end <= form_len
                     /\ header.start <= header.read /\ header.read <= header.end
                     /\ header.start <= header.write /\ header.write <= header.end
                     /\ header.read <= header.write
             THEN Alloc(header.start, header.write - header.start, diff)
             ELSE NoHeader

(***************************************************************************)
(* The input images                                                        *)
(*                                                                         *)
(* An image is given by the fields RawHeaders::from_form reads out of its  *)
(* first HEADERS_SIZE bytes, its length and its data bytes.  The table is  *)
(* given by its leading slots (head); the slots behind them are either the *)
(* chain of never-used headers the allocator starts with (tail = "chain"), *)
(* that chain ending in a freed block in the last slot (tail = "open"), or *)
(* all zero (tail = "zero").                                               *)
(***************************************************************************)
RawHeader(write, read, start, end) ==
    [write |-> write, read |-> read, start |-> start, end |-> end]

\* A never-used header: on the free list, linked to the header behind it.
TailHeader(i) ==
    RawHeader(IF i = HEADER_COUNT - 1 THEN 0 ELSE pointer_from_index(i + 1),
              HEADERS_SIZE, HEADERS_SIZE, HEADERS_SIZE)

ZeroHeader == RawHeader(0, 0, 0, 0)

\* raw.headers[i]
RawAt(image, i) ==
    IF i < Len(image.head) THEN image.head[i + 1]
    ELSE IF image.tail = "chain" THEN TailHeader(i)
    ELSE IF image.tail = "open"
    THEN IF i = HEADER_COUNT - 1
         THEN RawHeader(0, 0, HEADERS_SIZE + 16, HEADERS_SIZE + 32)
         ELSE TailHeader(i)
    ELSE ZeroHeader

\* form[p] for a position p of the data area: a text of 'o', 'k' and 'x' in
\* its first 32 bytes, zero behind it.
FormByte(image, p) ==
    IF image.text /\ p >= HEADERS_SIZE /\ p < HEADERS_SIZE + 32
    THEN LET j == p - HEADERS_SIZE
         IN  IF j % 4 = 3 THEN 120 ELSE IF j % 2 = 0 THEN 111 ELSE 107
    ELSE 0

Roots(a, b) ==
    [i \in 1..FREE_LIST_LEN |-> IF i = 1 THEN a
                                ELSE IF i = FREE_LIST_LEN THEN b ELSE 0]

Image(form_len, free_list, asmdisc, pad, head, tail, text) ==
    [form_len |-> form_len, free_list |-> free_list, asmdisc |-> asmdisc,
     pad |-> pad, head |-> head, tail |-> tail, text |-> text]

Kinds == <<"AllocA", "FreedF", "Unused", "AllocC", "AllocB", "FreedG", "Bad">>

KindFree(kind) == kind \in {"FreedF", "FreedG", "Unused"}

\* The raw header of each kind; link is the write field of a free header.
KindHeader(kind, link) ==
    CASE kind = "AllocA" ->
           RawHeader(HEADERS_SIZE + 5, HEADERS_SIZE, HEADERS_SIZE, HEADERS_SIZE + 16)
      [] kind = "AllocB" ->
           RawHeader(HEADERS_SIZE + 16, HEADERS_SIZE + 16,
                     HEADERS_SIZE + 16, HEADERS_SIZE + 32)
      [] kind = "AllocC" ->
           RawHeader(HEADERS_SIZE + 16, HEADERS_SIZE + 8,
                     HEADERS_SIZE + 8, HEADERS_SIZE + 16)
      [] kind = "FreedF" ->
           RawHeader(link, HEADERS_SIZE, HEADERS_SIZE + 16, HEADERS_SIZE + 32)
      [] kind = "FreedG" ->
           RawHeader(link, 0, HEADERS_SIZE + 48, HEADERS_SIZE + 64)
      [] kind = "Unused" ->
           RawHeader(link, HEADERS_SIZE, HEADERS_SIZE, HEADERS_SIZE)
      [] kind = "Bad" ->
           RawHeader(HEADERS_SIZE, HEADERS_SIZE, HEADERS_SIZE + 16, HEADERS_SIZE)

\* Strictly increasing choices of NumHead kinds.
KindSeqs ==
    {ks \in [1..NumHead -> 1..Len(Kinds)] :
        \A i \in 1..(NumHead - 1) : ks[i] < ks[i + 1]}

\* The first free slot behind slot i of the head, the first tail slot if none.
NextFree(ks, i) ==
    LET later == {j \in (i + 1)..(NumHead - 1) : KindFree(Kinds[ks[j + 1]])}
    IN  IF later = {} THEN NumHead
        ELSE CHOOSE j \in later : \A k \in later : j <= k

\* Images with a well-formed free list: one chain through the free headers
\* of the head and the never-used tail, rooted in the last root.
SegImages ==
    {Image(len, Roots(0, pointer_from_index(NextFree(ks, -1))),
           HEADERS_OFFSET, <<0, 0>>,
           [i \in 1..NumHead |->
               KindHeader(Kinds[ks[i]], pointer_from_index(NextFree(ks, i - 1)))],
           "chain", TRUE) :
        len \in {HEADERS_SIZE + 24, HEADERS_SIZE + DATA_SIZE}, ks \in KindSeqs}

\* Images whose free lists are arbitrary: free-shaped headers whose links,
\* and two roots, range over exact, misaligned, out-of-table and repeated
\* pointers.  The tail is all zero.
Links(i) ==
    {0, pointer_from_index(i + 1), pointer_from_index(i), pointer_from_index(0),
     pointer_from_index(i + 1) + 1, HEADERS_SIZE - 4, HEADERS_OFFSET - 1}

WalkImages ==
    {Image(HEADERS_SIZE + DATA_SIZE, Roots(a, b), HEADERS_OFFSET, <<0, 0>>,
           [i \in 1..NumHead |->
               RawHeader(links[i], 0, HEADERS_SIZE + 16 * i, HEADERS_SIZE + 16 * i + 16)],
           "zero", FALSE) :
        a \in {0, pointer_from_index(0), pointer_from_index(0) + 1, 20},
        b \in {0, pointer_from_index(0), pointer_from_index(1)},
        links \in {l \in [1..NumHead -> UNION {Links(i) : i \in 0..NumHead}] :
                      \A i \in 1..NumHead : l[i] \in Links(i - 1)}}

\* The image of the one-allocation scenario: all zero but the header of slot 0.
ScenarioImage ==
    Image(HEADERS_SIZE + DATA_SIZE, Roots(0, 0), 0, <<0, 0>>,
          <<KindHeader("AllocA", 0)>>, "zero", FALSE)

\* The same allocation in an image the allocator can have left behind: asmdisc
\* set, all other headers never used and on the free list.
ScenarioValidImage ==
    Image(HEADERS_SIZE + DATA_SIZE, Roots(pointer_from_index(1), 0),
          HEADERS_OFFSET, <<0, 0>>, <<KindHeader("AllocA", 0)>>, "chain", FALSE)

\* The allocator's initial state, and images failing one global check each.
EmptyImage(len) ==
    Image(len, Roots(pointer_from_index(0), 0), HEADERS_OFFSET, <<0, 0>>,
          <<>>, "chain", FALSE)

ScenarioImages ==
    {ScenarioImage, ScenarioValidImage,
     EmptyImage(HEADERS_SIZE), EmptyImage(HEADERS_SIZE + 8),
     EmptyImage(100), EmptyImage(U16_RANGE),
     [EmptyImage(HEADERS_SIZE + DATA_SIZE) EXCEPT !.tail = "open"],
     [ScenarioValidImage EXCEPT !.tail = "open"],
     [EmptyImage(HEADERS_SIZE) EXCEPT !.asmdisc = 0],
     [EmptyImage(HEADERS_SIZE) EXCEPT !.pad = <<0, 1>>]}

(***************************************************************************)
(* Initial states                                                          *)
(***************************************************************************)
NoPair == [start |-> 0, string |-> <<>>]
NoArg == [header |-> ZeroHeader, is_free |-> FALSE, form_len |-> 0, checks |-> FALSE]

InitOf(images) ==
    /\ img \in images
    /\ pc = "start"
    /\ err = ""
    /\ r = 0
    /\ cur = NoCall
    /\ free = [i \in Slots |-> FALSE]
    /\ parsed = <<>>
    /\ used = 0
    /\ allocs = <<>>
    /\ slices = <<>>
    /\ freed_cells = <<>>
    /\ npairs = 0
    /\ pair = NoPair
    /\ mismatch = -1
    /\ arg = NoArg
    /\ ret = NoHeader

Init == InitOf(SegImages \cup ScenarioImages)

InitWalk == InitOf(WalkImages \cup ScenarioImages)

Abort(message) ==
    /\ pc' = "abort"
    /\ err' = message

(***************************************************************************)
(* main, lines 55-58, and RawHeaders::from_form                            *)
(***************************************************************************)
Decode ==
    /\ pc = "start"
    /\ IF img.form_len >= U16_RANGE
       THEN Abort("form_len: out of range integral type conversion")
       ELSE IF img.form_len < HEADERS_SIZE
       THEN Abort("first_chunk: unwrap on None")
       ELSE pc' = "walk" /\ err' = err
    /\ UNCHANGED <<img, r, cur, free, parsed, used, allocs, slices,
                   freed_cells, npairs, pair, mismatch, arg, ret>>

(***************************************************************************)
(* Headers::from_form, the loop over raw.free_list, and                    *)
(* RawHeaders::visit_free, one call per step                               *)
(***************************************************************************)
VisitRoot ==
    /\ pc = "walk"
    /\ cur = NoCall
    /\ r < FREE_LIST_LEN
    /\ cur' = <<img.free_list[r + 1]>>
    /\ r' = r + 1
    /\ UNCHANGED <<img, pc, err, free, parsed, used, allocs, slices,
                   freed_cells, npairs, pair, mismatch, arg, ret>>

\* Fault: visit_free without the test of *is_free.
visit_free_Unchecked(header, checks) ==
    IF header = 0
    THEN cur' = NoCall /\ UNCHANGED <<pc, err, free>>
    ELSE LET at == index_from_pointer(header, checks)
             i == at.index
         IN  IF at.panic
             THEN Abort("attempt to subtract with overflow")
                  /\ UNCHANGED <<cur, free>>
             ELSE IF i >= HEADER_COUNT
             THEN Abort("index out of bounds") /\ UNCHANGED <<cur, free>>
             ELSE /\ free' = [free EXCEPT ![i] = TRUE]
                  /\ cur' = <<RawAt(img, i).write>>
                  /\ UNCHANGED <<pc, err>>

\* One call of visit_free(free, headers, header) with header = cur; the
\* recursive call in tail position is the next step.
visit_free(header, checks) ==
    IF header = 0
    THEN cur' = NoCall /\ UNCHANGED <<pc, err, free>>
    ELSE LET at == index_from_pointer(header, checks)
             i == at.index
         IN  IF at.panic
             THEN Abort("attempt to subtract with overflow")
                  /\ UNCHANGED <<cur, free>>
             ELSE IF i >= HEADER_COUNT
             THEN Abort("index out of bounds") /\ UNCHANGED <<cur, free>>
             ELSE IF free[i]
             THEN Abort("referenced multiple times in free list")
                  /\ UNCHANGED <<cur, free>>
             ELSE /\ free' = [free EXCEPT ![i] = TRUE]
                  /\ cur' = <<RawAt(img, i).write>>
                  /\ UNCHANGED <<pc, err>>

VisitFree ==
    /\ pc = "walk"
    /\ cur # NoCall
    /\ \E checks \in BOOLEAN : visit_free(cur[1], checks)
    /\ UNCHANGED <<img, r, parsed, used, allocs, slices,
                   freed_cells, npairs, pair, mismatch, arg, ret>>

(***************************************************************************)
(* Headers::from_form, lines 184-192: the two assertions and the           *)
(* classification of every slot, in index order                            *)
(***************************************************************************)
ParseAll(image, is_free, checks) ==
    [i \in Slots |-> from_raw(RawAt(image, i), is_free[i], image.form_len, checks)]

Parse ==
    /\ pc = "walk"
    /\ cur = NoCall
    /\ r = FREE_LIST_LEN
    /\ \E checks \in BOOLEAN :
        LET res == ParseAll(img, free, checks)
            bad == {i \in Slots : res[i].tag \in {"None", "Overflow"}}
            first == CHOOSE i \in bad : \A j \in bad : i <= j
        IN  IF img.asmdisc # HEADERS_OFFSET
            THEN Abort("assertion failed: asmdisc") /\ parsed' = parsed
            ELSE IF img.pad # <<0, 0>>
            THEN Abort("assertion failed: pad") /\ parsed' = parsed
            ELSE IF bad # {}
            THEN /\ Abort(IF res[first].tag = "Overflow"
                          THEN "attempt to subtract with overflow"
                          ELSE "invalid header")
                 /\ parsed' = parsed
            ELSE /\ parsed' = res
                 /\ pc' = "trim"
                 /\ err' = err
    /\ UNCHANGED <<img, r, cur, free, used, allocs, slices,
                   freed_cells, npairs, pair, mismatch, arg, ret>>

(***************************************************************************)
(* Headers::from_form, lines 194-212: the trailing never-used headers      *)
(***************************************************************************)
\* The value of next when the loop of lines 198-201 looks at slot used - 1:
\* pointer_from_index(HEADER_COUNT - 1), less size_of::<Header>() for every
\* slot already passed.
NextAt(u) ==
    pointer_from_index(HEADER_COUNT - 1) - HEADER_ENUM_SIZE * (HEADER_COUNT - 1 - u)

\* while used > 0 && parsed[used - 1] == Unused { next }: the loop stops at
\* the largest u that is 0 or whose slot u - 1 is not Unused { next }.
TrimLoop(p) ==
    LET stops == {u \in 0..(HEADER_COUNT - 1) :
                     u = 0 \/ ~(p[u - 1].tag = "Unused" /\ p[u - 1].next = NextAt(u))}
    IN  CHOOSE u \in stops : \A v \in stops : v <= u

\* Fault: the trailing headers are trimmed whatever the last slot holds.
TrimUsed_Unconditional(p) == TrimLoop(p)

TrimUsed(p) ==
    IF p[HEADER_COUNT - 1].tag = "Unused" /\ p[HEADER_COUNT - 1].next = 0
    THEN TrimLoop(p)
    ELSE HEADER_COUNT

\* Fault: the loop of lines 203-207 left out.
UnusedWithin_Skipped(p, u) == FALSE

\* for header in &parsed[..used]: matches!(header, Header::Unused { .. })
UnusedWithin(p, u) == \E i \in 0..(u - 1) : p[i].tag = "Unused"

Trim ==
    /\ pc = "trim"
    /\ LET u == TrimUsed(parsed)
       IN  /\ used' = u
           /\ IF UnusedWithin(parsed, u)
              THEN Abort("never-used header within allocated headers")
              ELSE pc' = "build" /\ err' = err
    /\ UNCHANGED <<img, r, cur, free, parsed, allocs, slices,
                   freed_cells, npairs, pair, mismatch, arg, ret>>

(***************************************************************************)
(* main, lines 72-95: the triples of the used headers, sorted.  The loop   *)
(* of lines 60-70 before it only prints the used headers; the text of an   *)
(* Alloc it slices, form[ptr..ptr + len], ends at or before header.end,    *)
(* which from_raw holds within the image.                                  *)
(***************************************************************************)
\* #[derive(PartialOrd, Ord)] enum State: the order of declaration
StateRank(state) ==
    CASE state = "Alloc" -> 0
      [] state = "Slack" -> 1
      [] state = "KnownFreed" -> 2
      [] state = "Unknown" -> 3

\* the lexicographic order of (u16, u16, State)
SegLess(a, b) ==
    \/ a[1] < b[1]
    \/ a[1] = b[1] /\ a[2] < b[2]
    \/ a[1] = b[1] /\ a[2] = b[2] /\ StateRank(a[3]) < StateRank(b[3])

RECURSIVE SortSegs(_)
\* allocs.sort()
SortSegs(s) ==
    IF Len(s) <= 1 THEN s
    ELSE LET rest == SortSegs(Tail(s))
             x == Head(s)
             before == SelectSeq(rest, LAMBDA y : SegLess(y, x))
             after == SelectSeq(rest, LAMBDA y : ~SegLess(y, x))
         IN  before \o <<x>> \o after

\* Fault: no Slack triple behind the text of an allocation.
HeaderTriples_NoSlack(header) ==
    IF header.tag = "Alloc"
    THEN <<<<header.ptr, header.ptr + header.len, "Alloc">>>>
    ELSE <<<<header.ptr, header.ptr + header.capacity, "KnownFreed">>>>

HeaderTriples(header) ==
    IF header.tag = "Alloc"
    THEN <<<<header.ptr, header.ptr + header.len, "Alloc">>>>
         \o (IF header.len # header.capacity
             THEN <<<<header.ptr + header.len, header.ptr + header.capacity, "Slack">>>>
             ELSE <<>>)
    ELSE <<<<header.ptr, header.ptr + header.capacity, "KnownFreed">>>>

RECURSIVE Triples(_, _, _)
Triples(p, i, u) ==
    IF i >= u THEN <<>> ELSE HeaderTriples(p[i]) \o Triples(p, i + 1, u)

BuildTriples ==
    /\ pc = "build"
    /\ IF \E i \in 0..(used - 1) : parsed[i].tag = "Unused"
       THEN Abort("entered unreachable code") /\ allocs' = allocs
       ELSE /\ allocs' = SortSegs(Triples(parsed, 0, used))
            /\ pc' = "sweep"
            /\ err' = err
    /\ UNCHANGED <<img, r, cur, free, parsed, used, slices,
                   freed_cells, npairs, pair, mismatch, arg, ret>>

(***************************************************************************)
(* main, lines 97-111: the gaps between the triples                        *)
(***************************************************************************)
RECURSIVE SweepLoop_NoGap(_, _, _, _)
\* Fault: the gap before a triple is not filled.
SweepLoop_NoGap(tr, i, prev, out) ==
    IF i > Len(tr)
    THEN [panic |-> FALSE, prev_alloc |-> prev, pushed |-> out]
    ELSE IF tr[i][1] < prev
    THEN [panic |-> TRUE, prev_alloc |-> prev, pushed |-> out]
    ELSE SweepLoop_NoGap(tr, i + 1, tr[i][2], out)

RECURSIVE SweepLoop_NoPanic(_, _, _, _)
\* Fault: an overlap is passed over, the cursor moving to max(prev, end).
SweepLoop_NoPanic(tr, i, prev, out) ==
    IF i > Len(tr)
    THEN [panic |-> FALSE, prev_alloc |-> prev, pushed |-> out]
    ELSE SweepLoop_NoPanic(tr, i + 1,
                           IF tr[i][2] > prev THEN tr[i][2] ELSE prev,
                           IF tr[i][1] > prev
                           THEN Append(out, <<prev, tr[i][1], "Unknown">>)
                           ELSE out)

RECURSIVE SweepLoop(_, _, _, _)
\* for i in 0..allocs.len(), with tr the triples, prev_alloc = prev and
\* out the Unknown segments pushed so far
SweepLoop(tr, i, prev, out) ==
    IF i > Len(tr)
    THEN [panic |-> FALSE, prev_alloc |-> prev, pushed |-> out]
    ELSE LET start == tr[i][1]
             end == tr[i][2]
             out2 == IF start > prev
                     THEN Append(out, <<prev, start, "Unknown">>)
                     ELSE out
         IN  IF start < prev
             THEN [panic |-> TRUE, prev_alloc |-> prev, pushed |-> out2]
             ELSE SweepLoop(tr, i + 1, end, out2)

Sweep ==
    /\ pc = "sweep"
    /\ LET res == SweepLoop(allocs, 1, HEADERS_SIZE, <<>>)
           last == IF res.prev_alloc < img.form_len
                   THEN <<<<res.prev_alloc, img.form_len, "Unknown">>>>
                   ELSE <<>>
       IN  IF res.panic
           THEN Abort("overlapping allocations") /\ allocs' = allocs
           ELSE /\ allocs' = SortSegs(allocs \o res.pushed \o last)
                /\ pc' = "emit"
                /\ err' = err
    /\ UNCHANGED <<img, r, cur, free, parsed, used, slices,
                   freed_cells, npairs, pair, mismatch, arg, ret>>

(***************************************************************************)
(* main, lines 113-148: the text of every segment and the freed cells      *)
(***************************************************************************)
Min(a, b) == IF a < b THEN a ELSE b

\* (i, j, truncated) of a segment
SliceOf(seg, form_len) ==
    IF seg[3] = "KnownFreed" /\ seg[2] > form_len
    THEN <<Min(seg[1], form_len), Min(seg[2], form_len), "...">>
    ELSE <<seg[1], seg[2], "">>

RECURSIVE EmitLoop(_, _, _, _, _)
\* for &(start, end, state) in &allocs; form[i..j] panics for j > form.len()
EmitLoop(segs, n, form_len, sl, cells) ==
    IF n > Len(segs)
    THEN [panic |-> FALSE, slices |-> sl, cells |-> cells]
    ELSE LET seg == segs[n]
             s == SliceOf(seg, form_len)
         IN  IF s[1] > s[2] \/ s[2] > form_len
             THEN [panic |-> TRUE, slices |-> Append(sl, s), cells |-> cells]
             ELSE EmitLoop(segs, n + 1, form_len, Append(sl, s),
                           IF seg[3] # "Alloc"
                           THEN Append(cells, <<s[1], s[2]>>)
                           ELSE cells)

Emit ==
    /\ pc = "emit"
    /\ LET res == EmitLoop(allocs, 1, img.form_len, <<>>, <<>>)
       IN  /\ slices' = res.slices
           /\ freed_cells' = res.cells
           /\ IF res.panic
              THEN Abort("slice index out of range")
              ELSE pc' = "residual" /\ err' = err
    /\ UNCHANGED <<img, r, cur, free, parsed, used, allocs,
                   npairs, pair, mismatch, arg, ret>>

(***************************************************************************)
(* main, lines 154-173: the residual strings                               *)
(***************************************************************************)
\* Fault: freed_cells filled for the bytes of every segment, Alloc included.
CellIsSome_Always(cells, p) == TRUE

\* freed_cells[p] is Some(form[p])
CellIsSome(cells, p) ==
    \E k \in DOMAIN cells : cells[k][1] <= p /\ p < cells[k][2]

RECURSIVE check_string(_, _, _, _, _)
\* for (i, &b) in string.as_bytes().iter().enumerate(), from index i on.
\* freed_cells[start + i] panics behind the image; so do the slices
\* [start..start + string.len()] taken for the message of the mismatch.
check_string(image, cells, start, string, i) ==
    IF i >= Len(string)
    THEN [result |-> "pass", index |-> -1]
    ELSE IF start + i >= image.form_len
    THEN [result |-> "oob", index |-> i]
    ELSE IF CellIsSome(cells, start + i)
            /\ FormByte(image, start + i) # string[i + 1]
    THEN IF start + Len(string) > image.form_len
         THEN [result |-> "oob", index |-> i]
         ELSE [result |-> "mismatch", index |-> i]
    ELSE check_string(image, cells, start, string, i + 1)

\* the bytes 'o', 'k' and 'x'
Alphabet == {111, 107, 120}

Texts == UNION {[1..n -> Alphabet] : n \in 0..MaxTextLen}

Offsets(image) ==
    {200, HEADERS_SIZE, HEADERS_SIZE + 4, HEADERS_SIZE + 6, image.form_len - 1}

Residual ==
    /\ pc = "residual"
    /\ npairs < MaxPairs
    /\ \E start \in Offsets(img), string \in Texts :
        LET res == check_string(img, freed_cells, start, string, 0)
        IN  /\ pair' = [start |-> start, string |-> string]
            /\ mismatch' = IF res.result = "mismatch" THEN res.index ELSE -1
            /\ npairs' = npairs + 1
            /\ IF res.result = "mismatch"
               THEN Abort("freed string does not match")
               ELSE IF res.result = "oob"
               THEN Abort("residual index out of range")
               ELSE pc' = pc /\ err' = err
    /\ UNCHANGED <<img, r, cur, free, parsed, used, allocs, slices,
                   freed_cells, arg, ret>>

\* residual_strings is exhausted: main returns
Finish ==
    /\ pc = "residual"
    /\ pc' = "done"
    /\ UNCHANGED <<img, err, r, cur, free, parsed, used, allocs, slices,
                   freed_cells, npairs, pair, mismatch, arg, ret>>

Next ==
    \/ Decode
    \/ VisitRoot
    \/ VisitFree
    \/ Parse
    \/ Trim
    \/ BuildTriples
    \/ Sweep
    \/ Emit
    \/ Residual
    \/ Finish

Spec == Init /\ [][Next]_vars

\* The walk is sequential code: while a call of visit_free or a root is
\* pending, the next step of the walk is taken.
SpecWalk == InitWalk /\ [][Next]_vars /\ WF_vars(VisitRoot \/ VisitFree)

(***************************************************************************)
(* Header::from_raw on its own, over raw headers around the bounds of the  *)
(* data area, for both free flags, both builds and three image lengths     *)
(***************************************************************************)
RawVals ==
    {0, HEADERS_SIZE - 1, HEADERS_SIZE + DATA_SIZE, HEADERS_SIZE + DATA_SIZE + 1}
    \cup {HEADERS_SIZE + d : d \in 0..MaxDelta}

RawArgs ==
    {[header |-> RawHeader(w, rd, s, e), is_free |-> f, form_len |-> len,
      checks |-> c] :
        w \in RawVals, rd \in RawVals, s \in RawVals, e \in RawVals,
        f \in BOOLEAN, c \in BOOLEAN,
        len \in {HEADERS_SIZE + 2, HEADERS_SIZE + DATA_SIZE}}

InitRaw ==
    /\ img = EmptyImage(HEADERS_SIZE)
    /\ pc = "raw"
    /\ err = ""
    /\ r = 0
    /\ cur = NoCall
    /\ free = <<>>
    /\ parsed = <<>>
    /\ used = 0
    /\ allocs = <<>>
    /\ slices = <<>>
    /\ freed_cells = <<>>
    /\ npairs = 0
    /\ pair = NoPair
    /\ mismatch = -1
    /\ arg \in RawArgs
    /\ ret = NoHeader

CallFromRaw ==
    /\ pc = "raw"
    /\ ret' = from_raw(arg.header, arg.is_free, arg.form_len, arg.checks)
    /\ pc' = "returned"
    /\ UNCHANGED <<img, err, r, cur, free, parsed, used, allocs, slices,
                   freed_cells, npairs, pair, mismatch, arg>>

NextRaw == CallFromRaw

SpecRaw == InitRaw /\ [][NextRaw]_vars

(***************************************************************************)
(* Properties                                                              *)
(***************************************************************************)
\* Headers::from_form has returned
Returned ==
    \/ pc \in {"build", "sweep", "emit", "residual", "done"}
    \/ err \in {"entered unreachable code", "overlapping allocations",
                "slice index out of range", "freed string does not match",
                "residual index out of range"}

\* the sweep of lines 97-110 has run
Swept ==
    \/ pc \in {"emit", "residual", "done"}
    \/ err \in {"overlapping allocations", "slice index out of range",
                "freed string does not match", "residual index out of range"}

\* the final allocs.sort() of line 111 has run
Segmented ==
    \/ pc \in {"emit", "residual", "done"}
    \/ err \in {"slice index out of range", "freed string does not match",
                "residual index out of range"}

\* s is a gapless, overlap-free chain of segments from HEADERS_SIZE to limit
TilesTo(s, limit) ==
    IF Len(s) = 0
    THEN limit = HEADERS_SIZE
    ELSE /\ s[1][1] = HEADERS_SIZE
         /\ \A i \in 1..(Len(s) - 1) : s[i][2] = s[i + 1][1]
         /\ s[Len(s)][2] = limit

\* the ends ptr + capacity of the used Freed headers
FreedEnds ==
    {parsed[i].ptr + parsed[i].capacity :
        i \in {k \in 0..(used - 1) : parsed[k].tag = "Freed"}}

FreedPastEnd == \E e \in FreedEnds : e > img.form_len

\* C1, as claimed: once the segmentation is complete, the sorted segments
\* tile [6144, image length) exactly: the first starts at 6144, each ends
\* where the next starts, the last ends at the image length.
C1_TilesImage == Segmented => TilesTo(allocs, img.form_len)

\* C1, amended: once the segmentation is complete, the sorted segments tile
\* [6144, E) exactly, where E is the image length unless a used Freed header
\* reaches past the image end, and then the largest ptr + capacity of the
\* used Freed headers.
C1_TilesToLastEnd ==
    Segmented =>
        \/ ~FreedPastEnd /\ TilesTo(allocs, img.form_len)
        \/ /\ FreedPastEnd
           /\ \E e \in FreedEnds :
                 (\A f \in FreedEnds : f <= e) /\ TilesTo(allocs, e)

\* C1, witness: a completed segmentation of an Alloc, its Slack and a Freed
\* block that reaches past the image end.
C1_Witness ==
    /\ pc = "done"
    /\ FreedPastEnd
    /\ Len(allocs) >= 3
    /\ \E k \in DOMAIN allocs : allocs[k][3] = "Slack"

\* the segments of the one-allocation scenario behind the header region
ScenarioSegments ==
    <<<<HEADERS_SIZE, HEADERS_SIZE + 5, "Alloc">>,
      <<HEADERS_SIZE + 5, HEADERS_SIZE + 16, "Slack">>,
      <<HEADERS_SIZE + 16, HEADERS_SIZE + DATA_SIZE, "Unknown">>>>

\* C4, as claimed: on the image that is all zero but the header of slot 0,
\* the run does not abort, slot 0 is Alloc{ptr: 6144, len: 5, capacity: 16}
\* and the segments are (0,6144,Unknown), (6144,6149,Alloc),
\* (6149,6160,Slack), (6160,38912,Unknown).
C4_ScenarioSucceeds ==
    img = ScenarioImage =>
        /\ err = ""
        /\ Segmented =>
              /\ parsed[0] = Alloc(HEADERS_SIZE, 5, 16)
              /\ allocs = <<<<0, HEADERS_SIZE, "Unknown">>>> \o ScenarioSegments

\* C4, amended: the all-zero image fails the asmdisc assertion of from_form;
\* with asmdisc = 36 and slots 1..762 the never-used chain on a free list,
\* from_form returns used = 1 and slot 0 as Alloc{ptr: 6144, len: 5,
\* capacity: 16}, and the segments are exactly (6144,6149,Alloc),
\* (6149,6160,Slack), (6160,38912,Unknown): the header region gets none.
C4_ScenarioAmended ==
    /\ (img = ScenarioImage /\ pc \notin {"start", "walk"})
          => (pc = "abort" /\ err = "assertion failed: asmdisc")
    /\ (img = ScenarioValidImage /\ pc \notin {"start", "walk"})
          => /\ parsed[0] = Alloc(HEADERS_SIZE, 5, 16)
             /\ pc # "trim" => used = 1
             /\ pc \notin {"trim", "build", "sweep"}
                   => (Segmented /\ allocs = ScenarioSegments)

\* C4, witness: the run over the valid scenario image has ended normally.
C4_Witness ==
    /\ img = ScenarioValidImage
    /\ pc = "done"
    /\ Len(allocs) = 3

\* the triples of the used headers, as sorted in line 95
SortedTriples == SortSegs(Triples(parsed, 0, used))

\* some triple starts before the end of the triple sorted before it
Overlapping(tr) == \E i \in 1..(Len(tr) - 1) : tr[i + 1][1] < tr[i][2]

\* C5, as claimed: a triple that starts before the coverage cursor does not
\* abort the analysis: the sweep completes and every triple is emitted.
C5_OverlapNotFatal ==
    (Swept /\ Overlapping(SortedTriples)) =>
        /\ err # "overlapping allocations"
        /\ \A i \in DOMAIN SortedTriples :
              \E k \in DOMAIN allocs : allocs[k] = SortedTriples[i]
        /\ Segmented

\* C5, amended: a triple that starts before the coverage cursor aborts the
\* run with the panic "overlapping allocations": the sweep completes, and
\* segments are emitted, exactly when no triple starts before the cursor.
C5_OverlapAborts ==
    Swept =>
        /\ (err = "overlapping allocations") <=> Overlapping(SortedTriples)
        /\ (err = "overlapping allocations") =>
              (pc = "abort" /\ slices = <<>> /\ ~Segmented)
        /\ Segmented => ~Overlapping(SortedTriples)

\* C5, witness: the sweep met a triple that starts before the cursor.
C5_Witness ==
    /\ err = "overlapping allocations"
    /\ Overlapping(SortedTriples)

\* C6, as claimed: every range of the image read for the text of a segment
\* lies within [0, image length], also with free blocks behind the image
\* end, and reading them is no error.
C6_SlicesWithinImage ==
    /\ \A k \in DOMAIN slices :
          /\ 0 <= slices[k][1]
          /\ slices[k][1] <= slices[k][2]
          /\ slices[k][2] <= img.form_len
    /\ err # "slice index out of range"

\* the overlay of the non-Alloc bytes holds a value for position p
OverlayHas(p) ==
    /\ p < img.form_len
    /\ \E k \in DOMAIN allocs :
          /\ allocs[k][3] \in {"Slack", "KnownFreed", "Unknown"}
          /\ allocs[k][1] <= p
          /\ p < allocs[k][2]

\* the indices of pair at which the overlay holds another byte than the text
Differing ==
    {i \in 0..(Len(pair.string) - 1) :
        /\ OverlayHas(pair.start + i)
        /\ FormByte(img, pair.start + i) # pair.string[i + 1]}

\* the outcome of the check of pair by the rule of the claim
ByOverlayRule ==
    IF Differing = {}
    THEN err = "" /\ mismatch = -1
    ELSE /\ pc = "abort"
         /\ err = "freed string does not match"
         /\ mismatch \in Differing
         /\ \A i \in Differing : mismatch <= i

\* C7, as claimed: for any offset and text, the check of a residual pair
\* skips the positions without overlay value, aborts with the index of the
\* first differing position, and passes when there is none.
C7_ResidualAnyPair == npairs > 0 => ByOverlayRule

\* C7, amended: the rule holds for every pair that lies within the image
\* (offset + length <= image length) and for every empty text; a non-empty
\* pair that reaches past the image end aborts with an index-out-of-range
\* panic and reports no mismatch.
C7_ResidualInImage ==
    npairs > 0 =>
        IF pair.string = <<>> \/ pair.start + Len(pair.string) <= img.form_len
        THEN ByOverlayRule
        ELSE /\ pc = "abort"
             /\ err = "residual index out of range"
             /\ mismatch = -1

\* C7, witness: the text "ok" against an overlay that holds 'x' at its
\* second position: a mismatch at index 1.
C7_Witness ==
    /\ err = "freed string does not match"
    /\ pair.string = <<111, 107>>
    /\ mismatch = 1
    /\ FormByte(img, pair.start + 1) = 120
    /\ OverlayHas(pair.start + 1)

\* C8: when from_form has returned, 0 <= used <= 763, no slot below used
\* is Unused, every slot k from used on is Unused with next = 36 + 8 (k + 1),
\* or 0 for the last slot, and the segmenter never meets an Unused header.
C8_TrimmedTail ==
    Returned =>
        /\ 0 <= used /\ used <= 763
        /\ \A k \in 0..(used - 1) : parsed[k].tag # "Unused"
        /\ \A k \in used..762 :
              /\ parsed[k].tag = "Unused"
              /\ parsed[k].next = IF k < 762 THEN 36 + 8 * (k + 1) ELSE 0
        /\ err # "entered unreachable code"

\* C8, witness: from_form returned with a trimmed tail behind a used prefix.
C8_Witness ==
    /\ pc = "build"
    /\ used > 0
    /\ used < HEADER_COUNT
    /\ parsed[used].tag = "Unused"

\* the walk over the 17 roots is over: it returned or it panicked
WalkOver == pc # "walk" \/ (cur = NoCall /\ r = FREE_LIST_LEN)

\* the slot whose pointer is exactly p
SlotsAt(p) == {i \in Slots : 36 + 8 * i = p}

\* One call of visit_free: a zero pointer returns to the loop over the roots
\* and changes nothing else; any other pointer either panics, leaving free as
\* it is, or marks exactly one slot that was not marked and goes on with its
\* link; a pointer to a slot that is marked already panics with "referenced
\* multiple times".
VisitMarksOnce ==
    (pc = "walk" /\ cur # NoCall) =>
        IF cur[1] = 0
        THEN cur' = NoCall /\ free' = free /\ pc' = "walk" /\ r' = r
        ELSE /\ \/ pc' = "abort" /\ free' = free
                \/ /\ pc' = "walk"
                   /\ \E i \in Slots :
                         /\ ~free[i]
                         /\ free' = [free EXCEPT ![i] = TRUE]
                         /\ cur' = <<RawAt(img, i).write>>
             /\ \A i \in SlotsAt(cur[1]) :
                   free[i] => (pc' = "abort"
                               /\ err' = "referenced multiple times in free list")

C9_MarksExactPointers ==
    [][(pc = "walk" /\ cur # NoCall /\ cur # <<0>>) =>
          \/ pc' = "abort" /\ free' = free
          \/ \E i \in SlotsAt(cur[1]) : free' = [free EXCEPT ![i] = TRUE]]_vars

\* the powers of two of a u16
PowersOfTwo == {1, 2, 4, 8, 16, 32, 64, 128, 256, 512, 1024, 2048, 4096,
                8192, 16384, 32768}

\* C3: from_raw yields Unused{next: write} iff the slot is free, start = end
\* = 6144 and read = 6144; Freed{next: write, ptr: start, capacity: end -
\* start} iff the slot is free, not of the shape start = end = 6144, start >=
\* 6144, end <= 38912, start <= end, end - start a power of two and read 6144
\* or 0; Alloc{ptr: start, len: write - start, capacity: end - start} iff the
\* slot is not free, start >= 6144, end <= 38912, end - start a power of two,
\* start <= end <= image length, read and write in [start, end] and read <=
\* write; and no classification in every other case.
C3_FromRawShapes ==
    pc = "returned" =>
        LET h == arg.header
            sentinel == h.start = 6144 /\ h.end = 6144
            unused == arg.is_free /\ sentinel /\ h.read = 6144
            freed == /\ arg.is_free
                     /\ ~sentinel
                     /\ h.start >= 6144
                     /\ h.end <= 38912
                     /\ h.start <= h.end
                     /\ (h.end - h.start) \in PowersOfTwo
                     /\ h.read \in {6144, 0}
            alloc == /\ ~arg.is_free
                     /\ h.start >= 6144
                     /\ h.end <= 38912
                     /\ (h.end - h.start) \in PowersOfTwo
                     /\ h.start <= h.end
                     /\ h.end <= arg.form_len
                     /\ h.start <= h.read /\ h.read <= h.end
                     /\ h.start <= h.write /\ h.write <= h.end
                     /\ h.read <= h.write
        IN  /\ unused <=> ret = [tag |-> "Unused", next |-> h.write]
            /\ freed <=> ret = [tag |-> "Freed", next |-> h.write,
                                ptr |-> h.start, capacity |-> h.end - h.start]
            /\ alloc <=> ret = [tag |-> "Alloc", ptr |-> h.start,
                                len |-> h.write - h.start,
                                capacity |-> h.end - h.start]
            /\ ~(unused \/ freed \/ alloc) <=> ret.tag \in {"None", "Overflow"}
            /\ (h.end < h.start) => ret.tag \in {"None", "Overflow"}

\* C3, witness: a free header of capacity 32768 was classified as Freed.
C3_Witness ==
    /\ pc = "returned"
    /\ ret.tag = "Freed"
    /\ ret.capacity = DATA_SIZE
    /\ arg.is_free

\* C10, as claimed: no subtraction of from_raw leaves the range of a u16,
\* whatever the raw header: end - start is never computed for end < start,
\* so a build with overflow checks never panics on it.
C10_NoOverflow == pc = "returned" => ret.tag # "Overflow"

====
